---- MODULE Spec2Model ----
(***************************************************************************)
(* Model of src/open_llm_vtuber/translate/tencent.py: the TencentTranslate *)
(* client (TC3-HMAC-SHA256 request signing, one HTTP POST per translate    *)
(* call, JSON extraction, logging).                                        *)
(*                                                                         *)
(* Python str values are TLA+ strings; the input text is a sequence of     *)
(* one-character strings so that json.dumps can escape it character by     *)
(* character.  HMAC-SHA256 and SHA-256 are given functions: they are       *)
(* modelled as free (injective) symbolic terms over the text they are      *)
(* applied to.  Several callers run translate on one client instance.  A   *)
(* caller's steps are the statements of translate up to the POST, one by   *)
(* one, and then the handling of the response or of the exception, which   *)
(* touches only the call's own frame and log records.                      *)
(***************************************************************************)
EXTENDS Integers, Sequences, FiniteSets, TLC

(* ---------------------------- bounds ----------------------------------- *)
\* translate calls started in one behaviour
MaxCalls == 2
\* seconds the clock may advance in one behaviour
MaxTicks == 1

\* seconds in a UTC calendar day
SecondsPerDay == 86400

\* first clock reading: 2023-11-14T23:59:59Z, the last second of day 19675
ClockStart == 19676 * SecondsPerDay - 1

Callers == {"c1", "c2"}

\* input texts (sequences of characters), with and without characters
\* that json.dumps escapes
Texts == {<<"h", "i">>, <<"a", "\"">>}

\* constructor arguments
SecretIds == {"AKID", "AKIDz8"}
SecretKeys == {"secret", "Gu5t9x"}
Tokens == {"", "tok"}
Regions == {"", "ap-guangzhou"}

(* ------------------------ given functions ------------------------------ *)
\* hmac.new(key, msg, hashlib.sha256).digest()
HmacSha256(key, msg) == "HMAC(" \o key \o "," \o msg \o ")"
\* hashlib.sha256(msg).digest()
Sha256(msg) == "SHA256(" \o msg \o ")"
\* .hexdigest() of a digest
Hex(digest) == "hex:" \o digest

\* sign(key, msg)
sign(key, msg) == HmacSha256(key, msg)

(* --------------------------- str helpers ------------------------------- *)
RECURSIVE Join(_, _)
\* sep.join(parts)
Join(sep, parts) ==
    IF parts = <<>> THEN ""
    ELSE IF Len(parts) = 1 THEN parts[1]
    ELSE parts[1] \o sep \o Join(sep, Tail(parts))

\* str.lower() on the action identifiers the client can hold
Lower(s) ==
    CASE s = "TextTranslate" -> "texttranslate"
      [] OTHER -> s

\* zero-padded decimal of width 2 (strftime %m, %d)
Pad2(n) == IF n < 10 THEN "0" \o ToString(n) ELSE ToString(n)

\* zero-padded decimal of width 4 (strftime %Y)
Pad4(n) ==
    IF n < 10 THEN "000" \o ToString(n)
    ELSE IF n < 100 THEN "00" \o ToString(n)
    ELSE IF n < 1000 THEN "0" \o ToString(n)
    ELSE ToString(n)

\* proleptic Gregorian civil date of a day count since 1970-01-01
CivilFromDays(days) ==
    LET z   == days + 719468
        era == z \div 146097
        doe == z - era * 146097
        yoe == (doe - (doe \div 1460) + (doe \div 36524) - (doe \div 146096)) \div 365
        doy == doe - (365 * yoe + (yoe \div 4) - (yoe \div 100))
        mp  == (5 * doy + 2) \div 153
        d   == doy - ((153 * mp + 2) \div 5) + 1
        m   == IF mp < 10 THEN mp + 3 ELSE mp - 9
        y   == yoe + era * 400 + (IF m <= 2 THEN 1 ELSE 0)
    IN  [year |-> y, month |-> m, day |-> d]

\* datetime.fromtimestamp(ts, timezone.utc).strftime("%Y-%m-%d")
UtcDate(ts) ==
    LET c == CivilFromDays(ts \div SecondsPerDay)
    IN  Pad4(c.year) \o "-" \o Pad2(c.month) \o "-" \o Pad2(c.day)

(* ----------------------------- json.dumps ------------------------------ *)
\* escape of one character inside a JSON string (ensure_ascii default)
JsonEscapeChar(ch) ==
    CASE ch = "\"" -> "\\\""
      [] ch = "\\" -> "\\\\"
      [] ch = "\n" -> "\\n"
      [] OTHER -> ch

RECURSIVE JsonEscape(_)
JsonEscape(chars) ==
    IF chars = <<>> THEN ""
    ELSE JsonEscapeChar(Head(chars)) \o JsonEscape(Tail(chars))

\* json.dumps of a str given as characters
JsonString(chars) == "\"" \o JsonEscape(chars) \o "\""

\* json.dumps of a str given whole (the language codes hold no escapes)
JsonWord(s) == "\"" \o s \o "\""

\* json.dumps({"SourceText":..,"Source":..,"Target":..,"ProjectId":0})
\* with the default separators (", ", ": ") and insertion order
json_dumps(src_text, source_lang, target_lang) ==
    "{" \o Join(", ", << "\"SourceText\": " \o JsonString(src_text),
                         "\"Source\": " \o JsonWord(source_lang),
                         "\"Target\": " \o JsonWord(target_lang),
                         "\"ProjectId\": 0" >>) \o "}"

(* ------------------------------ state ---------------------------------- *)
VARIABLES
    self,       \* the client's configuration fields (set by __init__)
    clock,      \* time.time(), in whole seconds
    calls,      \* translate calls started so far
    pc,         \* per caller: the statement of translate it executes next
    text,       \* per caller: argument of translate
    timestamp,  \* per caller: local timestamp
    date,       \* per caller: local date
    payload,    \* per caller: local payload
    headers,    \* per caller: local headers
    sent,       \* per caller: requests httpx.post received in this call
    response,   \* per caller: body httpx.post returned
    res,        \* per caller: local res (parsed JSON)
    e,          \* per caller: caught exception
    outcome,    \* per caller: how the call left translate
    logs,       \* per caller: loguru records emitted by this call
    wire        \* every request the transport received, with its inputs

vars == << self, clock, calls, pc, text, timestamp, date, payload, headers,
           sent, response, res, e, outcome, logs, wire >>

locals == << text, timestamp, date, payload, headers, sent, response, res,
             e, outcome, logs >>

(* --------------------------- JSON values ------------------------------- *)
\* A JSON value as far as translate looks into it: its type and, for a
\* string, its characters.
JLeaf(t, s) == [t |-> t, s |-> s]
JAbsent == JLeaf("absent", "")

\* A response body.  json = FALSE: the body is not JSON.  Otherwise top is
\* the type of the top-level value; for an object, Response is the value
\* under "Response" (t = "absent" when the key is missing) and, when that
\* is an object, TargetText the value under "TargetText".
Body(isJson, top, rt, tt) ==
    [json |-> isJson, top |-> top, Response |-> rt, TargetText |-> tt]

NoBody == Body(FALSE, "none", "absent", JAbsent)
NotJsonBody == Body(FALSE, "text", "absent", JAbsent)

TargetTextValues ==
    { JAbsent, JLeaf("string", "konnichiwa"), JLeaf("number", "5") }

Bodies ==
    {NotJsonBody}
    \cup { Body(TRUE, top, "absent", JAbsent) :
             top \in {"array"} }
    \cup { Body(TRUE, "object", rt, JAbsent) :
             rt \in {"absent", "string"} }
    \cup { Body(TRUE, "object", "object", tt) : tt \in TargetTextValues }

\* exceptions httpx.post raises
TransportErrors == {"ConnectError", "ReadTimeout"}

FALLBACK == JLeaf("string", "Translation failed")

\* res.get("Response", {}).get("TargetText", "Translation failed"):
\* the value returned, or the AttributeError of calling .get on a value
\* that is not a dict
Extract(r) ==
    IF r.top # "object" THEN [raises |-> TRUE, value |-> JAbsent]
    ELSE IF r.Response = "absent" THEN [raises |-> FALSE, value |-> FALLBACK]
    ELSE IF r.Response # "object" THEN [raises |-> TRUE, value |-> JAbsent]
    ELSE IF r.TargetText.t = "absent" THEN [raises |-> FALSE, value |-> FALLBACK]
    ELSE [raises |-> FALSE, value |-> r.TargetText]

(* --------------------------- the client -------------------------------- *)
\* TencentTranslate.__init__
NewClient(secret_id, secret_key, token, region, source_lang, target_lang) ==
    [ secret_id   |-> secret_id,
      secret_key  |-> secret_key,
      token       |-> token,
      region      |-> region,
      service     |-> "tmt",
      host        |-> "tmt.tencentcloudapi.com",
      version     |-> "2018-03-21",
      action      |-> "TextTranslate",
      algorithm   |-> "TC3-HMAC-SHA256",
      source_lang |-> source_lang,
      target_lang |-> target_lang ]

\* create_signature with the service and request keys derived in the wrong order
create_signature_swapped(d, service) ==
    LET secret_date    == sign("TC3" \o self.secret_key, d)
        secret_service == sign(secret_date, "tc3_request")
        secret_signing == sign(secret_service, service)
    IN  secret_signing

\* TencentTranslate.create_signature
create_signature(d, service) ==
    LET secret_date    == sign("TC3" \o self.secret_key, d)
        secret_service == sign(secret_date, service)
        secret_signing == sign(secret_service, "tc3_request")
    IN  secret_signing

\* header keys when X-TC-Token is set without testing self.token
HeaderNamesAlwaysToken ==
    { "Authorization", "Content-Type", "Host", "X-TC-Action",
      "X-TC-Timestamp", "X-TC-Version", "X-TC-Token" }
    \cup (IF self.region # "" THEN {"X-TC-Region"} ELSE {})

\* the keys of the dict _prepare_headers returns
HeaderNames ==
    { "Authorization", "Content-Type", "Host", "X-TC-Action",
      "X-TC-Timestamp", "X-TC-Version" }
    \cup (IF self.region # "" THEN {"X-TC-Region"} ELSE {})
    \cup (IF self.token # "" THEN {"X-TC-Token"} ELSE {})

\* TencentTranslate._prepare_headers
_prepare_headers(pl, ts, d) ==
    LET ct == "application/json; charset=utf-8"
        canonical_uri == "/"
        canonical_querystring == ""
        canonical_headers ==
            "content-type:" \o ct \o "\nhost:" \o self.host
            \o "\nx-tc-action:" \o Lower(self.action) \o "\n"
        signed_headers == "content-type;host;x-tc-action"
        hashed_request_payload == Hex(Sha256(pl))
        canonical_request ==
            Join("\n", << "POST", canonical_uri, canonical_querystring,
                          canonical_headers, signed_headers,
                          hashed_request_payload >>)
        credential_scope == d \o "/" \o self.service \o "/tc3_request"
        hashed_canonical_request == Hex(Sha256(canonical_request))
        string_to_sign ==
            self.algorithm \o "\n" \o ToString(ts) \o "\n"
            \o credential_scope \o "\n" \o hashed_canonical_request
        secret_signing == create_signature(d, self.service)
        signature == Hex(HmacSha256(secret_signing, string_to_sign))
        authorization ==
            self.algorithm \o " Credential=" \o self.secret_id \o "/"
            \o credential_scope \o ", SignedHeaders=" \o signed_headers
            \o ", Signature=" \o signature
    IN  [ h \in HeaderNames |->
            CASE h = "Authorization"  -> authorization
              [] h = "Content-Type"   -> ct
              [] h = "Host"           -> self.host
              [] h = "X-TC-Action"    -> self.action
              [] h = "X-TC-Timestamp" -> ToString(ts)
              [] h = "X-TC-Version"   -> self.version
              [] h = "X-TC-Region"    -> self.region
              [] h = "X-TC-Token"     -> self.token ]

NoHeaders == [h \in {} |-> ""]
NoOutcome == [kind |-> "none", value |-> JAbsent, error |-> ""]

\* json.dumps with separators (",", ":"), as a transport serialising the
\* dict itself would produce
json_dumps_compact(src_text, source_lang, target_lang) ==
    "{" \o Join(",", << "\"SourceText\":" \o JsonString(src_text),
                        "\"Source\":" \o JsonWord(source_lang),
                        "\"Target\":" \o JsonWord(target_lang),
                        "\"ProjectId\":0" >>) \o "}"

\* httpx.post given the dict again instead of the signed payload string
RequestReserialized(c) ==
    [ url |-> "https://" \o self.host, headers |-> headers[c],
      data |-> json_dumps_compact(text[c], self.source_lang,
                                  self.target_lang) ]

\* the arguments of httpx.post in translate
Request(c) ==
    [ url |-> "https://" \o self.host, headers |-> headers[c],
      data |-> payload[c] ]

\* a loguru record
LogRecord(level, message, r, err) ==
    [level |-> level, message |-> message, res |-> r, error |-> err]

(* ------------------------------ Init ----------------------------------- *)
\* every client the constructor arguments allow
AllClients ==
    { NewClient(id, key, tok, reg, "zh", "ja") :
        id \in SecretIds, key \in SecretKeys, tok \in Tokens, reg \in Regions }

\* the clients whose calls are followed statement by statement: the default
\* one (no token, default region) and one with a token and an empty region
Clients ==
    { NewClient("AKID", "secret", "", "ap-guangzhou", "zh", "ja"),
      NewClient("AKID", "secret", "tok", "", "zh", "ja") }

\* the state once a client has been constructed, before any call
Constructed(clients) ==
    /\ self \in clients
    /\ clock = ClockStart
    /\ calls = 0
    /\ pc = [c \in Callers |-> "idle"]
    /\ text = [c \in Callers |-> <<>>]
    /\ timestamp = [c \in Callers |-> 0]
    /\ date = [c \in Callers |-> ""]
    /\ payload = [c \in Callers |-> ""]
    /\ headers = [c \in Callers |-> NoHeaders]
    /\ sent = [c \in Callers |-> <<>>]
    /\ response = [c \in Callers |-> NoBody]
    /\ res = [c \in Callers |-> NoBody]
    /\ e = [c \in Callers |-> ""]
    /\ outcome = [c \in Callers |-> NoOutcome]
    /\ logs = [c \in Callers |-> <<>>]
    /\ wire = {}

Init == Constructed(Clients)

(* --------------------- translate, statement by statement --------------- *)
\* a caller enters translate(t) with a fresh frame; a caller whose previous
\* call has ended may call again
Call(c, t) ==
    /\ pc[c] \in {"idle", "done"}
    /\ calls < MaxCalls
    /\ calls' = calls + 1
    /\ pc' = [pc EXCEPT ![c] = "time"]
    /\ text' = [text EXCEPT ![c] = t]
    /\ timestamp' = [timestamp EXCEPT ![c] = 0]
    /\ date' = [date EXCEPT ![c] = ""]
    /\ payload' = [payload EXCEPT ![c] = ""]
    /\ headers' = [headers EXCEPT ![c] = NoHeaders]
    /\ sent' = [sent EXCEPT ![c] = <<>>]
    /\ response' = [response EXCEPT ![c] = NoBody]
    /\ res' = [res EXCEPT ![c] = NoBody]
    /\ e' = [e EXCEPT ![c] = ""]
    /\ outcome' = [outcome EXCEPT ![c] = NoOutcome]
    /\ logs' = [logs EXCEPT ![c] = <<>>]
    /\ UNCHANGED << self, clock, wire >>

\* the timestamp kept in a field of the shared instance instead of a local
ReadClockShared(c) ==
    /\ pc[c] = "time"
    /\ timestamp' = [d \in Callers |-> clock]
    /\ pc' = [pc EXCEPT ![c] = "date"]
    /\ UNCHANGED << self, clock, calls, text, date, payload, headers, sent,
                    response, res, e, outcome, logs, wire >>

\* timestamp = int(time.time())
ReadClock(c) ==
    /\ pc[c] = "time"
    /\ timestamp' = [timestamp EXCEPT ![c] = clock]
    /\ pc' = [pc EXCEPT ![c] = "date"]
    /\ UNCHANGED << self, clock, calls, text, date, payload, headers, sent,
                    response, res, e, outcome, logs, wire >>

\* the date taken from a second clock reading (datetime.now(timezone.utc))
ComputeDateNow(c) ==
    /\ pc[c] = "date"
    /\ date' = [date EXCEPT ![c] = UtcDate(clock)]
    /\ pc' = [pc EXCEPT ![c] = "dumps"]
    /\ UNCHANGED << self, clock, calls, text, timestamp, payload, headers,
                    sent, response, res, e, outcome, logs, wire >>

\* date = datetime.fromtimestamp(timestamp, timezone.utc).strftime(...)
ComputeDate(c) ==
    /\ pc[c] = "date"
    /\ date' = [date EXCEPT ![c] = UtcDate(timestamp[c])]
    /\ pc' = [pc EXCEPT ![c] = "dumps"]
    /\ UNCHANGED << self, clock, calls, text, timestamp, payload, headers,
                    sent, response, res, e, outcome, logs, wire >>

\* the payload carrying a per-instance request counter as ProjectId
BuildPayloadNumbered(c) ==
    /\ pc[c] = "dumps"
    /\ payload' = [payload EXCEPT
                     ![c] = "{" \o Join(", ",
                              << "\"SourceText\": " \o JsonString(text[c]),
                                 "\"Source\": " \o JsonWord(self.source_lang),
                                 "\"Target\": " \o JsonWord(self.target_lang),
                                 "\"ProjectId\": " \o ToString(calls) >>)
                            \o "}"]
    /\ pc' = [pc EXCEPT ![c] = "headers"]
    /\ UNCHANGED << self, clock, calls, text, timestamp, date, headers, sent,
                    response, res, e, outcome, logs, wire >>

\* payload = json.dumps({...})
BuildPayload(c) ==
    /\ pc[c] = "dumps"
    /\ payload' = [payload EXCEPT
                     ![c] = json_dumps(text[c], self.source_lang,
                                       self.target_lang)]
    /\ pc' = [pc EXCEPT ![c] = "headers"]
    /\ UNCHANGED << self, clock, calls, text, timestamp, date, headers, sent,
                    response, res, e, outcome, logs, wire >>

\* _prepare_headers consuming the session token it has just attached
PrepareHeadersDropToken(c) ==
    /\ pc[c] = "headers"
    /\ headers' = [headers EXCEPT
                     ![c] = _prepare_headers(payload[c], timestamp[c], date[c])]
    /\ self' = [self EXCEPT !.token = ""]
    /\ pc' = [pc EXCEPT ![c] = "post"]
    /\ UNCHANGED << clock, calls, text, timestamp, date, payload, sent,
                    response, res, e, outcome, logs, wire >>

\* headers = self._prepare_headers(payload, timestamp, date)
PrepareHeaders(c) ==
    /\ pc[c] = "headers"
    /\ headers' = [headers EXCEPT
                     ![c] = _prepare_headers(payload[c], timestamp[c], date[c])]
    /\ pc' = [pc EXCEPT ![c] = "post"]
    /\ UNCHANGED << self, clock, calls, text, timestamp, date, payload, sent,
                    response, res, e, outcome, logs, wire >>

\* what the transport receives when httpx.post is called
Transmit(c) ==
    /\ sent' = [sent EXCEPT ![c] = Append(sent[c], Request(c))]
    /\ wire' = wire \cup { [ text |-> text[c], timestamp |-> timestamp[c],
                             request |-> Request(c) ] }

\* response = httpx.post(...) raises
PostRaises(c, err) ==
    /\ pc[c] = "post"
    /\ Transmit(c)
    /\ e' = [e EXCEPT ![c] = err]
    /\ pc' = [pc EXCEPT ![c] = "except"]
    /\ UNCHANGED << self, clock, calls, text, timestamp, date, payload,
                    headers, response, res, outcome, logs >>

\* response = httpx.post(...) returns a response with body b
PostReturns(c, b) ==
    /\ pc[c] = "post"
    /\ Transmit(c)
    /\ response' = [response EXCEPT ![c] = b]
    /\ pc' = [pc EXCEPT ![c] = "json"]
    /\ UNCHANGED << self, clock, calls, text, timestamp, date, payload,
                    headers, res, e, outcome, logs >>

\* res = response.json() raises on a body that is not JSON
JsonRaises(c) ==
    /\ pc[c] = "json"
    /\ ~response[c].json
    /\ e' = [e EXCEPT ![c] = "JSONDecodeError"]
    /\ pc' = [pc EXCEPT ![c] = "except"]
    /\ UNCHANGED << self, clock, calls, text, timestamp, date, payload,
                    headers, sent, response, res, outcome, logs, wire >>

\* the info record of logger.info(f"Request successful: {res}")
InfoRecord(r) == LogRecord("INFO", "Request successful: ", r, "")

\* res = response.json(); logger.info(...); return res.get("Response",
\* {}).get("TargetText", "Translation failed") returning a value
ReturnValue(c) ==
    /\ pc[c] = "json"
    /\ response[c].json
    /\ ~Extract(response[c]).raises
    /\ res' = [res EXCEPT ![c] = response[c]]
    /\ logs' = [logs EXCEPT ![c] = Append(logs[c], InfoRecord(response[c]))]
    /\ outcome' = [outcome EXCEPT
                     ![c] = [kind |-> "return",
                             value |-> Extract(response[c]).value,
                             error |-> ""]]
    /\ pc' = [pc EXCEPT ![c] = "done"]
    /\ UNCHANGED << self, clock, calls, text, timestamp, date, payload,
                    headers, sent, response, e, wire >>

\* res = response.json(); logger.info(...); the return expression raises
\* AttributeError inside the try block
ExtractRaises(c) ==
    /\ pc[c] = "json"
    /\ response[c].json
    /\ Extract(response[c]).raises
    /\ res' = [res EXCEPT ![c] = response[c]]
    /\ logs' = [logs EXCEPT ![c] = Append(logs[c], InfoRecord(response[c]))]
    /\ e' = [e EXCEPT ![c] = "AttributeError"]
    /\ pc' = [pc EXCEPT ![c] = "except"]
    /\ UNCHANGED << self, clock, calls, text, timestamp, date, payload,
                    headers, sent, response, outcome, wire >>

\* the critical record of logger.critical(f"API call error: {e}")
CriticalRecord(err) == LogRecord("CRITICAL", "API call error: ", NoBody, err)

\* the except block logging and then returning the fallback instead of
\* raising
SwallowError(c) ==
    /\ pc[c] = "except"
    /\ logs' = [logs EXCEPT ![c] = Append(logs[c], CriticalRecord(e[c]))]
    /\ outcome' = [outcome EXCEPT
                     ![c] = [kind |-> "return", value |-> FALLBACK,
                             error |-> ""]]
    /\ pc' = [pc EXCEPT ![c] = "done"]
    /\ UNCHANGED << self, clock, calls, text, timestamp, date, payload,
                    headers, sent, response, res, e, wire >>

\* except Exception as e: logger.critical(f"API call error: {e}"); raise e
Reraise(c) ==
    /\ pc[c] = "except"
    /\ logs' = [logs EXCEPT ![c] = Append(logs[c], CriticalRecord(e[c]))]
    /\ outcome' = [outcome EXCEPT
                     ![c] = [kind |-> "raise", value |-> JAbsent,
                             error |-> e[c]]]
    /\ pc' = [pc EXCEPT ![c] = "done"]
    /\ UNCHANGED << self, clock, calls, text, timestamp, date, payload,
                    headers, sent, response, res, e, wire >>

\* a second passes
Tick ==
    /\ clock < ClockStart + MaxTicks
    /\ clock' = clock + 1
    /\ UNCHANGED << self, calls, pc, locals, wire >>

Next ==
    \/ \E c \in Callers, t \in Texts : Call(c, t)
    \/ \E c \in Callers : ReadClock(c)
    \/ \E c \in Callers : ComputeDate(c)
    \/ \E c \in Callers : BuildPayload(c)
    \/ \E c \in Callers : PrepareHeaders(c)
    \/ \E c \in Callers, err \in TransportErrors : PostRaises(c, err)
    \/ \E c \in Callers, b \in Bodies : PostReturns(c, b)
    \/ \E c \in Callers : JsonRaises(c)
    \/ \E c \in Callers : ReturnValue(c)
    \/ \E c \in Callers : ExtractRaises(c)
    \/ \E c \in Callers : Reraise(c)
    \/ Tick

Spec == Init /\ [][Next]_vars

(* ------------------ _prepare_headers as a pure function ---------------- *)
\* payloads, timestamps and dates _prepare_headers is applied to; the date
\* need not be the date of the timestamp
Payloads == { json_dumps(t, "zh", "ja") : t \in Texts }
Timestamps == ClockStart .. (ClockStart + MaxTicks)
Dates == { UtcDate(ts) : ts \in Timestamps }

InitHeaders == Constructed(AllClients)

\* headers = self._prepare_headers(pl, ts, d), called directly
CallPrepareHeaders(c, pl, ts, d) ==
    /\ pc[c] \in {"idle", "post"}
    /\ payload' = [payload EXCEPT ![c] = pl]
    /\ timestamp' = [timestamp EXCEPT ![c] = ts]
    /\ date' = [date EXCEPT ![c] = d]
    /\ headers' = [headers EXCEPT ![c] = _prepare_headers(pl, ts, d)]
    /\ pc' = [pc EXCEPT ![c] = "post"]
    /\ UNCHANGED << self, clock, calls, text, sent, response, res, e,
                    outcome, logs, wire >>

NextHeaders ==
    \E pl \in Payloads, ts \in Timestamps, d \in Dates :
        CallPrepareHeaders("c1", pl, ts, d)

SpecHeaders == InitHeaders /\ [][NextHeaders]_vars

(* ----------------------------- properties ------------------------------ *)
\* statements of translate after httpx.post was called
AfterPost == {"json", "except", "done"}
\* statements of translate after _prepare_headers returned
HeadersBuilt == {"post"} \cup AfterPost

\* r holds a string at Response.TargetText
HasTargetTextString(r) ==
    /\ r.json
    /\ r.top = "object"
    /\ r.Response = "object"
    /\ r.TargetText.t = "string"

\* The Authorization value the TC3-HMAC-SHA256 scheme prescribes for a
\* payload pl, a timestamp ts and a date d under the client's credentials.
TC3Authorization(pl, ts, d) ==
    LET k1 == HmacSha256("TC3" \o self.secret_key, d)
        k2 == HmacSha256(k1, self.service)
        k3 == HmacSha256(k2, "tc3_request")
        scope == d \o "/" \o self.service \o "/tc3_request"
        canonical ==
            "POST\n/\n\ncontent-type:application/json; charset=utf-8\nhost:"
            \o self.host \o "\nx-tc-action:texttranslate\n\n"
            \o "content-type;host;x-tc-action\n" \o Hex(Sha256(pl))
        string_to_sign ==
            Join("\n", << self.algorithm, ToString(ts), scope,
                          Hex(Sha256(canonical)) >>)
    IN  self.algorithm \o " Credential=" \o self.secret_id \o "/" \o d
        \o "/" \o self.service \o "/tc3_request, "
        \o "SignedHeaders=content-type;host;x-tc-action, "
        \o "Signature=" \o Hex(HmacSha256(k3, string_to_sign))

\* C1: whenever the response body parsed as JSON and holds no string at
\* Response.TargetText, the finished call returned the fallback string
\* "Translation failed" (and did not raise).
C1_FallbackOnAnyJsonShape ==
    \A c \in Callers :
        (pc[c] = "done" /\ response[c].json /\ ~HasTargetTextString(response[c]))
            => outcome[c] = [kind |-> "return", value |-> FALLBACK,
                             error |-> ""]

\* C2: a call whose POST raised or whose body was not JSON ends by raising
\* that same error, after exactly one critical log record and nothing else,
\* and every call has handed exactly one request to the transport once it
\* is past the POST (none before).
C2_TransportFailurePropagates ==
    \A c \in Callers :
        /\ (pc[c] \in AfterPost) => Len(sent[c]) = 1
        /\ (pc[c] \notin AfterPost) => Len(sent[c]) = 0
        /\ (pc[c] = "done" /\ e[c] \in TransportErrors \cup {"JSONDecodeError"})
              => /\ outcome[c] = [kind |-> "raise", value |-> JAbsent,
                                  error |-> e[c]]
                 /\ logs[c] = << CriticalRecord(e[c]) >>

\* C2 witness: a call ended by raising the error of the transport
C2_Witness ==
    \E c \in Callers :
        /\ pc[c] = "done"
        /\ e[c] = "ReadTimeout"
        /\ outcome[c].kind = "raise"
        /\ Len(sent[c]) = 1

\* C3: in every header dict built, X-TC-Region is present iff region is
\* non-empty, X-TC-Token iff the token is non-empty, and the six fixed
\* headers are always present.
C3_ConditionalHeaders ==
    \A c \in Callers :
        pc[c] \in HeadersBuilt =>
            /\ ("X-TC-Region" \in DOMAIN headers[c]) <=> (self.region # "")
            /\ ("X-TC-Token" \in DOMAIN headers[c]) <=> (self.token # "")
            /\ { "Authorization", "Content-Type", "Host", "X-TC-Action",
                 "X-TC-Timestamp", "X-TC-Version" } \subseteq DOMAIN headers[c]

\* C3 witness: headers were built by a client with a region and no token
C3_Witness ==
    \E c \in Callers :
        /\ pc[c] = "post"
        /\ self.region # ""
        /\ self.token = ""
        /\ "X-TC-Region" \in DOMAIN headers[c]
        /\ "X-TC-Token" \notin DOMAIN headers[c]

\* C4: every request sent carries one timestamp ts in X-TC-Timestamp and in
\* the string-to-sign, and the date of its credential scope and key
\* derivation is the UTC date of that ts, even when the clock moved on
\* between the reading and the POST.
C4_DateFromSentTimestamp ==
    \A c \in Callers :
        \A i \in 1 .. Len(sent[c]) :
            \E ts \in ClockStart .. (ClockStart + MaxTicks) :
                /\ sent[c][i].headers["X-TC-Timestamp"] = ToString(ts)
                /\ sent[c][i].headers["Authorization"]
                     = TC3Authorization(sent[c][i].data, ts, UtcDate(ts))

\* C4 witness: a request went out after the clock had passed midnight,
\* signed with the timestamp read the day before
C4_Witness ==
    \E c \in Callers :
        /\ pc[c] \in AfterPost
        /\ timestamp[c] < clock
        /\ UtcDate(clock) # UtcDate(timestamp[c])
        /\ date[c] = "2023-11-14"

\* C5: the data of every request handed to the transport is the payload
\* whose SHA-256 closes the canonical request that was signed.
C5_SentPayloadIsSignedPayload ==
    \A c \in Callers :
        \A i \in 1 .. Len(sent[c]) :
            /\ sent[c][i].data = payload[c]
            /\ sent[c][i].headers["Authorization"]
                 = TC3Authorization(sent[c][i].data, timestamp[c], date[c])

\* C5 witness: a request was sent for a text json.dumps has to escape
C5_Witness ==
    \E c \in Callers :
        /\ Len(sent[c]) = 1
        /\ text[c] = <<"a", "\"">>
        /\ sent[c][1].data
             = "{\"SourceText\": \"a\\\"\", \"Source\": \"zh\", \"Target\": \"ja\", \"ProjectId\": 0}"

\* C6: the Authorization header _prepare_headers builds is the
\* TC3-HMAC-SHA256 value for the call's payload, timestamp and date.
C6_AuthorizationValue ==
    \A c \in Callers :
        pc[c] \in HeadersBuilt =>
            headers[c]["Authorization"]
                = TC3Authorization(payload[c], timestamp[c], date[c])

\* C6 witness: headers built under the second secret key for the timestamp
\* 1700006400 and the date of the day before
C6_Witness ==
    \E c \in Callers :
        /\ pc[c] = "post"
        /\ self.secret_key = "Gu5t9x"
        /\ timestamp[c] = 1700006400
        /\ date[c] = "2023-11-14"
        /\ "Authorization" \in DOMAIN headers[c]

\* C7: two requests sent by the client for the same text and the same
\* timestamp are identical in URL, headers and body, whatever calls happened
\* before and however they ended.
C7_RequestIsFunctionOfInputs ==
    \A w1 \in wire : \A w2 \in wire :
        (w1.text = w2.text /\ w1.timestamp = w2.timestamp)
            => w1.request = w2.request

\* C7 witness: a call that raised was followed by a call with the same text
\* and timestamp, which has sent its request too
C7_Witness ==
    \E c \in Callers : \E d \in Callers \ {c} :
        /\ pc[c] = "done"
        /\ outcome[c].kind = "raise"
        /\ pc[d] \in AfterPost
        /\ text[c] = text[d]
        /\ timestamp[c] = timestamp[d]
        /\ Cardinality(wire) = 1

\* C8: under every interleaving, the request a call sent is the one
\* computed from its own text and timestamp, and the value it returns is
\* extracted from the response it received.
C8_CallsAreIsolated ==
    \A c \in Callers :
        /\ (pc[c] \in AfterPost) =>
              LET pl == json_dumps(text[c], self.source_lang, self.target_lang)
              IN  sent[c] = << [ url |-> "https://" \o self.host,
                                 headers |-> _prepare_headers(
                                     pl, timestamp[c], UtcDate(timestamp[c])),
                                 data |-> pl ] >>
        /\ (pc[c] = "done" /\ outcome[c].kind = "return") =>
              /\ ~Extract(response[c]).raises
              /\ outcome[c].value = Extract(response[c]).value

\* C8 witness: two calls in flight at once, past their POST, with
\* different texts and different timestamps
C8_Witness ==
    \E c \in Callers : \E d \in Callers :
        /\ pc[c] \in AfterPost
        /\ pc[d] = "done"
        /\ text[c] # text[d]
        /\ timestamp[c] # timestamp[d]
        /\ outcome[d].kind = "return"

\* C9: no step of any call changes a configuration field.
C9_ConfigNeverMutated == [][self' = self]_vars

\* C9 witness: one call has returned and another has raised
C9_Witness ==
    \E c \in Callers : \E d \in Callers :
        /\ pc[c] = "done"
        /\ pc[d] = "done"
        /\ outcome[c].kind = "return"
        /\ outcome[d].kind = "raise"

\* C10: a finished call has emitted exactly one log record: the info
\* record iff it returned a value, the critical record iff it raised.
C10_ExactlyOneLogRecord ==
    \A c \in Callers :
        pc[c] = "done" =>
            /\ Len(logs[c]) = 1
            /\ (outcome[c].kind = "return") <=> (logs[c][1].level = "INFO")
            /\ (outcome[c].kind = "raise") <=> (logs[c][1].level = "CRITICAL")
====
